---- MODULE Spec2Model ----
(***************************************************************************)
(* Model of the Energy Power Dashboard (src/app.py): the session state    *)
(* (reading table, snapshot history, edit mode, input box, status) and    *)
(* the handlers that change it.  Every user interaction re-runs the whole *)
(* script, so each action is the widget's effect followed by the          *)
(* remainder of the script in source order.                               *)
(*                                                                         *)
(* DataFrames are objects: a variable holds a reference into `heap`, and  *)
(* DataFrame.copy() allocates a new object.  Texts are tuples of          *)
(* one-character strings so that strip() and float() can be computed.     *)
(***************************************************************************)
EXTENDS Integers, Sequences, FiniteSets, TLC

\* ------------------------------------------------------------------ bounds
MaxRows == 2        \* rows the append box may grow the table to
MaxEditRows == 2    \* rows of a table handed back by the data editor
MaxExports == 2     \* exports explored per session
MaxInserts == 6     \* add_to_history calls explored by the history harness
MaxClock == 1       \* seconds the wall clock may advance
MaxPlotRows == 2    \* rows of the tables handed to the plot preparation
MaxStatRows == 3    \* rows of the tables handed to the statistics
MaxStatusRows == 2  \* rows of the tables whose latest value is labelled
MaxRoundTrip == 4   \* exports explored when snapshots are restored

\* ------------------------------------------------------- program constants
POWER_MIN == -150
POWER_MAX == 150
HISTORY_CAP == 5

\* ------------------------------------------------------------------- cells
\* A cell of a DataFrame.  k is the kind of the value held:
\*   "num"  a finite float (n, integer-valued in this model)
\*   "nan"  float NaN          "inf"  +/- infinity (n is the sign)
\*   "none" None / missing     "str"  a Python str (s)
\*   "ts"   a pandas Timestamp (n seconds after the model epoch), "nat" NaT
Num(n) == [k |-> "num", n |-> n, s |-> <<>>]
NaN == [k |-> "nan", n |-> 0, s |-> <<>>]
Inf(sign) == [k |-> "inf", n |-> sign, s |-> <<>>]
None == [k |-> "none", n |-> 0, s |-> <<>>]
Str(t) == [k |-> "str", n |-> 0, s |-> t]
Ts(n) == [k |-> "ts", n |-> n, s |-> <<>>]
NaT == [k |-> "nat", n |-> 0, s |-> <<>>]

\* pandas isna(): the values dropna() removes
IsNA(c) == c.k \in {"nan", "none", "nat"}

\* ------------------------------------------------------------------- texts
Digits == {"0", "1", "2", "3", "4", "5", "6", "7", "8", "9"}

DigitVal(c) ==
    CASE c = "0" -> 0 [] c = "1" -> 1 [] c = "2" -> 2 [] c = "3" -> 3
      [] c = "4" -> 4 [] c = "5" -> 5 [] c = "6" -> 6 [] c = "7" -> 7
      [] c = "8" -> 8 [] c = "9" -> 9

DigitChar(d) ==
    CASE d = 0 -> "0" [] d = 1 -> "1" [] d = 2 -> "2" [] d = 3 -> "3"
      [] d = 4 -> "4" [] d = 5 -> "5" [] d = 6 -> "6" [] d = 7 -> "7"
      [] d = 8 -> "8" [] d = 9 -> "9"

\* code point of the characters the model's texts are made of
Ord(c) ==
    CASE c = " " -> 32 [] c = "+" -> 43 [] c = "-" -> 45 [] c = ":" -> 58
      [] c \in Digits -> 48 + DigitVal(c)
      [] c = "A" -> 65 [] c = "F" -> 70 [] c = "I" -> 73 [] c = "N" -> 78
      [] c = "a" -> 97 [] c = "b" -> 98 [] c = "c" -> 99 [] c = "f" -> 102
      [] c = "i" -> 105 [] c = "n" -> 110 [] c = "x" -> 120
      [] OTHER -> 0

\* str.lower() on one character
Lower(c) ==
    CASE c = "A" -> "a" [] c = "F" -> "f" [] c = "I" -> "i" [] c = "N" -> "n"
      [] OTHER -> c

RECURSIVE LStrip(_)
LStrip(t) == IF t # <<>> /\ Head(t) = " " THEN LStrip(Tail(t)) ELSE t

RECURSIVE RStrip(_)
RStrip(t) ==
    IF t # <<>> /\ t[Len(t)] = " " THEN RStrip(SubSeq(t, 1, Len(t) - 1)) ELSE t

\* str.strip()
Strip(t) == RStrip(LStrip(t))

\* str < str, lexicographic by code point
RECURSIVE StrLess(_, _)
StrLess(a, b) ==
    IF b = <<>> THEN FALSE
    ELSE IF a = <<>> THEN TRUE
    ELSE IF Ord(Head(a)) # Ord(Head(b)) THEN Ord(Head(a)) < Ord(Head(b))
    ELSE StrLess(Tail(a), Tail(b))

RECURSIVE DigitsVal(_)
DigitsVal(t) ==
    IF t = <<>> THEN 0
    ELSE DigitsVal(SubSeq(t, 1, Len(t) - 1)) * 10 + DigitVal(t[Len(t)])

IsDigits(t) == t # <<>> /\ \A i \in 1..Len(t) : t[i] \in Digits

\* float(text): [ok |-> FALSE] stands for ValueError.  Covers the grammar
\* [sign] digits | [sign] "nan" | [sign] "inf", matched case-insensitively
\* after stripping blanks as float() does; the texts of this model hold no
\* fraction, exponent or underscore.
ParseFloat(text) ==
    LET t == Strip(text)
        signed == t # <<>> /\ Head(t) \in {"+", "-"}
        sign == IF signed /\ Head(t) = "-" THEN -1 ELSE 1
        body == IF signed THEN Tail(t) ELSE t
        low == [i \in 1..Len(body) |-> Lower(body[i])]
    IN  IF IsDigits(body) THEN [ok |-> TRUE, v |-> Num(sign * DigitsVal(body))]
        ELSE IF low = <<"n", "a", "n">> THEN [ok |-> TRUE, v |-> NaN]
        ELSE IF low = <<"i", "n", "f">> THEN [ok |-> TRUE, v |-> Inf(sign)]
        ELSE [ok |-> FALSE, v |-> NaN]

\* float < int and float > int as Python evaluates them (NaN compares false)
FloatLess(v, b) ==
    CASE v.k = "num" -> v.n < b
      [] v.k = "inf" -> v.n < 0
      [] OTHER -> FALSE

FloatGreater(v, b) ==
    CASE v.k = "num" -> v.n > b
      [] v.k = "inf" -> v.n > 0
      [] OTHER -> FALSE

\* pd.to_numeric(cell, errors="coerce")
ToNumeric(c) ==
    CASE c.k \in {"num", "nan", "inf"} -> c
      [] c.k = "str" -> IF ParseFloat(c.s).ok THEN ParseFloat(c.s).v ELSE NaN
      [] OTHER -> NaN

\* Series.between(lo, hi) on one value: inclusive, false for NaN
Between(v, lo, hi) ==
    ~FloatLess(v, lo) /\ ~FloatGreater(v, hi) /\ v.k \in {"num", "inf"}

\* datetime.now().strftime("%Y-%m-%d %H:%M:%S") at t seconds after the
\* model epoch 2024-01-01 00:00:00 (t < 10)
StampPrefix ==
    <<"2", "0", "2", "4", "-", "0", "1", "-", "0", "1", " ",
      "0", "0", ":", "0", "0", ":", "0">>

Stamp(t) == StampPrefix \o <<DigitChar(t)>>

IsStamp(t) ==
    Len(t) = Len(StampPrefix) + 1
    /\ SubSeq(t, 1, Len(StampPrefix)) = StampPrefix
    /\ t[Len(t)] \in Digits

\* ------------------------------------------------------------------- state
VARIABLES
    df,                 \* st.session_state.df: reference to the live DataFrame
    history,            \* st.session_state.history: list of snapshot items
    heap,               \* the DataFrame objects, by reference
    edit_mode,          \* st.session_state.edit_mode
    power_input,        \* st.session_state.power_input
    last_input_status,  \* st.session_state.last_input_status
    now,                \* the wall clock, in seconds after the model epoch
    df_plot,            \* the frame tab_visual charts, seen when a chart control is used
    metrics,            \* the top metrics and the statistics tab's stats, seen likewise
    shown,              \* messages the history and export tabs show in that run
    event,              \* the widget event that caused the latest script run
    inserted,           \* every snapshot add_to_history was asked to keep
    used                \* interactions spent, for the bounds above

vars == <<df, history, heap, edit_mode, power_input, last_input_status,
          now, df_plot, metrics, shown, event, inserted, used>>

\* a row of the table: the columns "Date Time" and "Power"
Row(d, p) == [dt |-> d, power |-> p]

\* pd.DataFrame(columns=["Date Time", "Power"])
EmptyFrame == <<>>

\* DataFrame.empty
IsEmpty(tbl) == Len(tbl) = 0

\* last_input_status values: None, or (level, message) with the message's
\* interpolated values kept as cells
NoStatus == [level |-> "none", text |-> "", args |-> <<>>]
Status(level, text, args) == [level |-> level, text |-> text, args |-> args]

MsgEmpty == Status("error", "Please input a value.", <<>>)
MsgNotNumber == Status("error", "Please input a valid number.", <<>>)
MsgRange ==
    Status("error", "Power must be between {POWER_MIN} and {POWER_MAX}.",
           <<Num(POWER_MIN), Num(POWER_MAX)>>)
MsgAdded(stamp, v) ==
    Status("success", "Added: {now} | Power = {power_val}", <<Str(stamp), v>>)
MsgCleared == Status("success", "All data cleared from table.", <<>>)

\* the session state as one value, threaded through the script
Session ==
    [df |-> df, history |-> history, heap |-> heap, edit_mode |-> edit_mode,
     power_input |-> power_input, last_input_status |-> last_input_status]

\* the rows of the live table
Table == heap[df]

\* ------------------------------------------------------------------ objects
\* the reference a newly constructed DataFrame gets: the least unused one
NewId(h) ==
    CHOOSE i \in 0..Cardinality(DOMAIN h) :
        i \notin DOMAIN h /\ \A j \in 0..(i - 1) : j \in DOMAIN h

\* a new DataFrame holding tbl
Alloc(h, tbl) == [heap |-> (NewId(h) :> tbl) @@ h, ref |-> NewId(h)]

\* a copy that shares the original's data instead of duplicating it
DfCopyShared(h, r) == [heap |-> h, ref |-> r]

\* DataFrame.copy(): a new object with the same rows
DfCopy(h, r) == Alloc(h, h[r])

\* references are renamed by first use (live table, then the snapshots in
\* order) once a script run ends; unreferenced DataFrames are collected
Refs(s) == <<s.df>> \o [i \in 1..Len(s.history) |-> s.history[i].df]

\* the position at which reference r is first used in refs, from 0
Canon(refs, r) ==
    (CHOOSE j \in 1..Len(refs) : refs[j] = r /\ \A m \in 1..(j - 1) : refs[m] # r) - 1

Collect(s) ==
    LET refs == Refs(s)
        name == [r \in {refs[j] : j \in 1..Len(refs)} |-> Canon(refs, r)]
    IN  [s EXCEPT
            !.df = name[s.df],
            !.history = [i \in 1..Len(s.history) |->
                            [s.history[i] EXCEPT !.df = name[s.history[i].df]]],
            !.heap = [c \in {name[r] : r \in DOMAIN name} |->
                        s.heap[CHOOSE r \in DOMAIN name : name[r] = c]]]

\* ----------------------------------------------------------------- inputs
\* texts typed into the "Power value" box
PowerInputs ==
    { <<>>, <<" ", " ">>, <<"a", "b", "c">>,
      <<"-", "1", "5", "1">>, <<"-", "1", "5", "0">>,
      <<"1", "5", "0", " ">>, <<"1", "5", "1">>, <<"n", "a", "n">>,
      <<"I", "n", "f">> }

\* the texts tried in sessions that also export and restore
SessionInputs == { <<"a", "b", "c">>, <<"1", "5", "0", " ">> }

\* the texts tried in sessions without grid edits: a number inside the
\* range, one outside it, and the float that is not a number
NoEditInputs ==
    { <<"1", "5", "0", " ">>, <<"1", "5", "1">>, <<"n", "a", "n">> }

\* rows the data editor can hand back: text or nothing in either column,
\* a number outside the range, numeric text
EditRows ==
    { Row(Str(<<"x">>), Str(<<"a", "b", "c">>)), Row(None, Num(200)),
      Row(Str(<<"x">>), None), Row(Str(Stamp(0)), Str(<<"7">>)) }

SeqsUpTo(S, n) == UNION {[1..m -> S] : m \in 0..n}

EditedTables == SeqsUpTo(EditRows, MaxEditRows)

\* the edited tables tried in sessions that also export and restore
SessionEdits ==
    { <<Row(Str(<<"x">>), Str(<<"a", "b", "c">>)), Row(None, Num(200))>> }

\* the edited table tried where snapshots are restored: as many rows as
\* the editor may hand back, the first with text in both columns
RoundTripEdit ==
    [i \in 1..MaxEditRows |->
        IF i = 1 THEN Row(Str(<<"x">>), Str(<<"a", "b", "c">>)) ELSE Row(None, Num(200))]

\* the "Base file name" field: its default and one other entry
DefaultBase == <<"p", "o", "w", "e", "r", "_", "d", "a", "t", "a">>
FileBases == {DefaultBase, <<"a">>}

ExportSuffix == <<" ", "(", "e", "x", "p", "o", "r", "t", ")">>

\* tables handed to add_to_history directly
InsertTables ==
    { EmptyFrame, <<Row(Str(Stamp(0)), Num(1))>>,
      <<Row(Str(Stamp(0)), Num(1)), Row(Str(Stamp(0)), Num(2))>> }

\* tables handed to the plot preparation: what a session's table can hold
\* once the editor has coerced its Power column
PlotDates == {None, Str(Stamp(0)), Str(Stamp(1)), Str(<<"x">>)}
PlotPowers == {Num(-7), Num(200), NaN}
PlotTables ==
    SeqsUpTo({Row(d, p) : d \in PlotDates, p \in PlotPowers}, MaxPlotRows)

\* tables handed to the statistics: the Power cells a session's table can
\* hold (numbers inside and outside the range, NaN, the infinities)
StatPowers == {Num(10), Num(20), Num(-200), NaN, Inf(1), Inf(-1)}
StatTables ==
    SeqsUpTo({Row(Str(Stamp(0)), p) : p \in StatPowers}, MaxStatRows)

\* tables whose latest value is labelled: values on both sides of 60 and
\* 120, of both signs, inside and outside the input range
StatusValues == {0, 30, 60, 61, 80, 120, 121, 130, 200}
StatusPowers ==
    {Num(v) : v \in StatusValues} \cup {Num(-v) : v \in StatusValues}
        \cup {NaN, Inf(1), Inf(-1)}
StatusTables ==
    SeqsUpTo({Row(Str(Stamp(0)), p) : p \in StatusPowers}, MaxStatusRows)

\* ---------------------------------------------------------------- handlers
\* append a row at the end, as pd.concat(..., ignore_index=True) does
Concat(tbl, row) == tbl \o <<row>>

\* a variant of the callback whose range check reports but does not return
handle_add_power_no_return(s, t) ==
    LET text == Strip(s.power_input)
        parsed == ParseFloat(text)
        power_val == parsed.v
        grown == Alloc(s.heap, Concat(s.heap[s.df], Row(Str(Stamp(t)), power_val)))
    IN  IF text = <<>> THEN [s EXCEPT !.last_input_status = MsgEmpty]
        ELSE IF ~parsed.ok THEN [s EXCEPT !.last_input_status = MsgNotNumber]
        ELSE IF FloatLess(power_val, POWER_MIN) \/ FloatGreater(power_val, POWER_MAX)
        THEN [s EXCEPT !.heap = grown.heap, !.df = grown.ref,
                       !.last_input_status = MsgRange]
        ELSE [s EXCEPT !.heap = grown.heap, !.df = grown.ref,
                       !.last_input_status = MsgAdded(Stamp(t), power_val),
                       !.power_input = <<>>]

\* the on_change callback of the input box, run at time t
handle_add_power(s, t) ==
    LET text == Strip(s.power_input)
        parsed == ParseFloat(text)
        power_val == parsed.v
        grown == Alloc(s.heap, Concat(s.heap[s.df], Row(Str(Stamp(t)), power_val)))
    IN  IF text = <<>> THEN [s EXCEPT !.last_input_status = MsgEmpty]
        ELSE IF ~parsed.ok THEN [s EXCEPT !.last_input_status = MsgNotNumber]
        ELSE IF FloatLess(power_val, POWER_MIN) \/ FloatGreater(power_val, POWER_MAX)
        THEN [s EXCEPT !.last_input_status = MsgRange]
        ELSE [s EXCEPT !.heap = grown.heap, !.df = grown.ref,
                       !.last_input_status = MsgAdded(Stamp(t), power_val),
                       !.power_input = <<>>]

\* a variant of the clear button that also drops the snapshots
ClearDataAll(s) ==
    LET fresh == Alloc(s.heap, EmptyFrame)
    IN  [s EXCEPT !.heap = fresh.heap, !.df = fresh.ref, !.history = <<>>,
                  !.last_input_status = MsgCleared]

\* the "Clear data" button
ClearData(s) ==
    LET fresh == Alloc(s.heap, EmptyFrame)
    IN  [s EXCEPT !.heap = fresh.heap, !.df = fresh.ref,
                  !.last_input_status = MsgCleared]

\* the three table buttons; button is the one pressed in this run, if any
TableButtons(s, button) ==
    CASE button = "edit" -> [s EXCEPT !.edit_mode = TRUE]
      [] button = "lock" -> [s EXCEPT !.edit_mode = FALSE]
      [] button = "clear" -> ClearData(s)
      [] OTHER -> s

\* what the data editor hands back: the table it was given, or the table
\* as the operator edited it
NoEdit == [changed |-> FALSE, rows |-> <<>>]
Edit(tbl) == [changed |-> TRUE, rows |-> tbl]

\* edited_df["Power"] = pd.to_numeric(edited_df["Power"], errors="coerce")
CoercePower(tbl) ==
    [i \in 1..Len(tbl) |-> [tbl[i] EXCEPT !.power = ToNumeric(tbl[i].power)]]

\* a variant of the editor block that keeps only the rows inside the range
DataEditorDropInvalid(s, edits) ==
    LET edited == Alloc(s.heap, IF edits.changed THEN edits.rows ELSE s.heap[s.df])
        kept == SelectSeq(CoercePower(edited.heap[edited.ref]),
                          LAMBDA r : Between(r.power, POWER_MIN, POWER_MAX))
    IN  IF s.edit_mode
        THEN [s EXCEPT !.heap = [edited.heap EXCEPT ![edited.ref] = kept],
                       !.df = edited.ref]
        ELSE s

\* the editable table: st.data_editor returns a new DataFrame, its Power
\* column is coerced in place, and the result becomes the live table
DataEditor(s, edits) ==
    LET edited == Alloc(s.heap, IF edits.changed THEN edits.rows ELSE s.heap[s.df])
        coerced == [edited.heap EXCEPT
                        ![edited.ref] = CoercePower(edited.heap[edited.ref])]
    IN  IF s.edit_mode
        THEN [s EXCEPT !.heap = coerced, !.df = edited.ref]
        ELSE s

Min(a, b) == IF a < b THEN a ELSE b

\* list[:n]
Take(l, n) == SubSeq(l, 1, Min(n, Len(l)))

\* a variant of add_to_history that appends the item at the end of the list
add_to_history_at_end(s, r, name, t) ==
    LET c == DfCopy(s.heap, r)
        item == [name |-> name, df |-> c.ref, timestamp |-> Stamp(t)]
    IN  IF IsEmpty(s.heap[r]) THEN s
        ELSE [s EXCEPT !.heap = c.heap,
                       !.history = Take(s.history \o <<item>>, HISTORY_CAP)]

\* a variant of add_to_history without the empty-table check
add_to_history_unchecked(s, r, name, t) ==
    LET c == DfCopy(s.heap, r)
        item == [name |-> name, df |-> c.ref, timestamp |-> Stamp(t)]
    IN  [s EXCEPT !.heap = c.heap,
                  !.history = Take(<<item>> \o s.history, HISTORY_CAP)]

\* add_to_history(df, name), with df the DataFrame at reference r
add_to_history(s, r, name, t) ==
    LET c == DfCopy(s.heap, r)
        item == [name |-> name, df |-> c.ref, timestamp |-> Stamp(t)]
    IN  IF IsEmpty(s.heap[r]) THEN s
        ELSE [s EXCEPT !.heap = c.heap,
                       !.history = Take(<<item>> \o s.history, HISTORY_CAP)]

\* a variant of the history tab that restores the oldest snapshot when the
\* clicked index is past the end of the list
tab_history_clamped(s, clicked) ==
    LET i == Min(clicked + 1, Len(s.history))
        c == DfCopy(s.heap, s.history[i].df)
    IN  IF clicked >= 0 /\ s.history # <<>>
        THEN [s EXCEPT !.heap = c.heap, !.df = c.ref]
        ELSE s

\* a variant of the history tab whose restore buttons all restore the
\* newest snapshot
tab_history_newest(s, clicked) ==
    IF \E i \in 0..(Len(s.history) - 1) : i = clicked
    THEN LET c == DfCopy(s.heap, s.history[1].df)
         IN  [s EXCEPT !.heap = c.heap, !.df = c.ref]
    ELSE s

\* the history tab: one restore button per item; clicked is the index of
\* the button whose click caused this run (-1 when none)
tab_history(s, clicked) ==
    IF \E i \in 0..(Len(s.history) - 1) : i = clicked
    THEN LET c == DfCopy(s.heap, s.history[clicked + 1].df)
         IN  [s EXCEPT !.heap = c.heap, !.df = c.ref]
    ELSE s

\* what the history tab shows: the hint when the list is empty, the
\* success message when a rendered restore button was the one clicked
history_messages(s, clicked) ==
    IF s.history = <<>> THEN {"history_hint"}
    ELSE IF \E i \in 0..(Len(s.history) - 1) : i = clicked THEN {"restored"}
    ELSE {}

\* a variant of the export tab that names the snapshot by the bare file name
tab_export_plain_name(s, downloaded_any, filename_base, t) ==
    IF IsEmpty(s.heap[s.df]) THEN s
    ELSE LET df_export == DfCopy(s.heap, s.df)
             s1 == [s EXCEPT !.heap = df_export.heap]
         IN  IF downloaded_any
             THEN add_to_history(s1, df_export.ref, filename_base, t)
             ELSE s

\* the export tab; downloaded_any says a download button was clicked
tab_export(s, downloaded_any, filename_base, t) ==
    IF IsEmpty(s.heap[s.df]) THEN s
    ELSE LET df_export == DfCopy(s.heap, s.df)
             s1 == [s EXCEPT !.heap = df_export.heap]
         IN  IF downloaded_any
             THEN add_to_history(s1, df_export.ref, filename_base \o ExportSuffix, t)
             ELSE s

\* what the export tab shows
export_messages(s, downloaded_any) ==
    IF IsEmpty(s.heap[s.df]) THEN {"export_empty"}
    ELSE IF downloaded_any THEN {"exported"}
    ELSE {}

\* ---------------------------------------------------------------- plotting
\* pd.to_datetime on one cell; [ok |-> FALSE] stands for the parse error
ToDatetime(c) ==
    CASE c.k = "ts" -> [ok |-> TRUE, v |-> c]
      [] c.k = "str" /\ IsStamp(c.s) -> [ok |-> TRUE, v |-> Ts(DigitVal(c.s[Len(c.s)]))]
      [] c.k = "str" /\ c.s = <<>> -> [ok |-> TRUE, v |-> NaT]
      [] c.k = "str" -> [ok |-> FALSE, v |-> NaT]
      [] OTHER -> [ok |-> TRUE, v |-> NaT]

\* try: df["Date Time"] = pd.to_datetime(df["Date Time"]) except: pass
\* the column is converted as a whole, or left as it is when a cell fails
ConvertDates(tbl) ==
    IF \A i \in 1..Len(tbl) : ToDatetime(tbl[i].dt).ok
    THEN [i \in 1..Len(tbl) |-> [tbl[i] EXCEPT !.dt = ToDatetime(tbl[i].dt).v]]
    ELSE tbl

\* prepare_plot_df(df)
prepare_plot_df(tbl) ==
    SelectSeq(CoercePower(ConvertDates(tbl)), LAMBDA r : ~IsNA(r.power))

\* order of two "Date Time" cells of one column: by instant once the
\* column is converted, by text otherwise
DtLess(a, b) ==
    IF a.k = "ts" /\ b.k = "ts" THEN a.n < b.n
    ELSE IF a.k = "str" /\ b.k = "str" THEN StrLess(a.s, b.s)
    ELSE a.k = "str" /\ b.k = "ts"

\* insert row r into the sorted rows l, after the rows it does not precede
RECURSIVE InsertSorted(_, _)
InsertSorted(l, r) ==
    IF l = <<>> THEN <<r>>
    ELSE IF DtLess(r.dt, Head(l).dt) THEN <<r>> \o l
    ELSE <<Head(l)>> \o InsertSorted(Tail(l), r)

\* DataFrame.sort_values("Date Time")
RECURSIVE SortValues(_)
SortValues(tbl) ==
    IF tbl = <<>> THEN <<>>
    ELSE InsertSorted(SortValues(SubSeq(tbl, 1, Len(tbl) - 1)), tbl[Len(tbl)])

\* the frame charted by the visualization tab, before smoothing
tab_visual(tbl, sort_time, lo, hi) ==
    LET prepared == prepare_plot_df(tbl)
        clean == SelectSeq(CoercePower(prepared),
                           LAMBDA r : ~IsNA(r.dt) /\ ~IsNA(r.power))
        sorted == IF sort_time THEN SortValues(clean) ELSE clean
    IN  IF IsEmpty(prepared) THEN prepared
        ELSE SelectSeq(sorted, LAMBDA r : Between(r.power, lo, hi))

\* --------------------------------------------------------------- statistics
\* A Python float computed by the statistics: k is "num" for the finite
\* value n/d (in lowest terms, d > 0), "inf" for the infinity of sign n,
\* "nan" for NaN, and "sqrt" for the positive square root of n/d.
FNaN == [k |-> "nan", n |-> 0, d |-> 1]
FInf(sign) == [k |-> "inf", n |-> sign, d |-> 1]

Abs(n) == IF n < 0 THEN -n ELSE n

RECURSIVE GCD(_, _)
GCD(a, b) == IF b = 0 THEN a ELSE GCD(b, a % b)

\* n/d in lowest terms (d > 0)
Frac(n, d) ==
    LET g == GCD(Abs(n), d)
        sign == IF n < 0 THEN -1 ELSE 1
    IN  [k |-> "num", n |-> sign * (Abs(n) \div g), d |-> d \div g]

\* the float a numeric cell holds
FloatOf(c) ==
    CASE c.k = "num" -> Frac(c.n, 1)
      [] c.k = "inf" -> FInf(c.n)
      [] OTHER -> FNaN

\* a + b, -a, a - b and a * (p/q) with p >= 0, q > 0, in IEEE arithmetic
FAdd(a, b) ==
    CASE a.k = "nan" \/ b.k = "nan" -> FNaN
      [] a.k = "inf" /\ b.k = "inf" -> IF a.n = b.n THEN a ELSE FNaN
      [] a.k = "inf" -> a
      [] b.k = "inf" -> b
      [] OTHER -> Frac(a.n * b.d + b.n * a.d, a.d * b.d)

FNeg(a) == IF a.k = "nan" THEN a ELSE [a EXCEPT !.n = -a.n]

FSub(a, b) == FAdd(a, FNeg(b))

FScale(a, p, q) ==
    CASE a.k = "nan" -> FNaN
      [] a.k = "inf" -> IF p = 0 THEN FNaN ELSE a
      [] OTHER -> Frac(a.n * p, a.d * q)

\* a < b for two floats that are not NaN
FLess(a, b) ==
    CASE a.k = "inf" -> a.n < 0 /\ ~(b.k = "inf" /\ b.n < 0)
      [] b.k = "inf" -> b.n > 0
      [] OTHER -> a.n * b.d < b.n * a.d

\* math.sqrt of a float that is not negative
FSqrt(a) ==
    CASE a.k = "num" /\ a.n = 0 -> a
      [] a.k = "num" -> [a EXCEPT !.k = "sqrt"]
      [] OTHER -> a

\* pd.to_numeric(df["Power"], errors="coerce").dropna(), as floats
NumericValues(tbl) ==
    LET kept == SelectSeq(CoercePower(tbl), LAMBDA r : ~IsNA(r.power))
    IN  [i \in 1..Len(kept) |-> FloatOf(kept[i].power)]

\* Series.sum()
RECURSIVE FSum(_)
FSum(xs) == IF xs = <<>> THEN Frac(0, 1) ELSE FAdd(FSum(SubSeq(xs, 1, Len(xs) - 1)), xs[Len(xs)])

RECURSIVE FInsert(_, _)
FInsert(l, x) ==
    IF l = <<>> THEN <<x>>
    ELSE IF FLess(x, Head(l)) THEN <<x>> \o l
    ELSE <<Head(l)>> \o FInsert(Tail(l), x)

\* the values in ascending order
RECURSIVE FSort(_)
FSort(xs) ==
    IF xs = <<>> THEN <<>> ELSE FInsert(FSort(SubSeq(xs, 1, Len(xs) - 1)), xs[Len(xs)])

\* Series.mean(): the sum over the count
FMean(xs) == FScale(FSum(xs), 1, Len(xs))

\* Series.median(): the middle value, or the mean of the two middle values
FMedian(xs) ==
    LET o == FSort(xs)
        h == Len(xs) \div 2
    IN  IF Len(xs) % 2 = 1 THEN o[h + 1] ELSE FScale(FAdd(o[h], o[h + 1]), 1, 2)

\* Series.var(ddof=1) for two or more values: the squared deviations from
\* the mean over count - 1; NaN as soon as a value is infinite
FVar(xs) ==
    LET m == FMean(xs)
        dev == [i \in 1..Len(xs) |->
                    LET e == FSub(xs[i], m)
                    IN  IF e.k = "num" THEN Frac(e.n * e.n, e.d * e.d) ELSE FNaN]
    IN  FScale(FSum(dev), 1, Len(xs) - 1)

\* Series.quantile(p/4), linear interpolation between order statistics:
\* position (count - 1) * p/4, with a + (b - a) * t below the midpoint
\* and b - (b - a) * (1 - t) from it on
FQuantile(xs, p) ==
    LET o == FSort(xs)
        pos == (Len(xs) - 1) * p
        lo == pos \div 4
        r == pos % 4
        a == o[lo + 1]
        b == o[Min(lo + 2, Len(xs))]
        diff == FSub(b, a)
    IN  IF 2 * r >= 4 THEN FSub(b, FScale(diff, 4 - r, 4))
        ELSE FAdd(a, FScale(diff, r, 4))

\* the result of compute_power_stats when there is nothing to compute
NoStats == [count |-> 0]

\* the statistics of the non-empty series s
Describe(s) ==
    [count |-> Len(s), mean |-> FMean(s), median |-> FMedian(s),
     std |-> IF Len(s) > 1 THEN FSqrt(FVar(s)) ELSE Frac(0, 1),
     min |-> FSort(s)[1], max |-> FSort(s)[Len(s)], sum |-> FSum(s),
     q25 |-> FQuantile(s, 1), q75 |-> FQuantile(s, 3)]

\* the statistics of s, or NoStats when s is empty
DescribeOrNone(s) == IF s = <<>> THEN NoStats ELSE Describe(s)

\* the values of s inside the input range
InRangeValues(s) ==
    SelectSeq(s, LAMBDA x : ~FLess(x, Frac(POWER_MIN, 1))
                             /\ ~FLess(Frac(POWER_MAX, 1), x))

\* a variant of compute_power_stats that keeps only the values inside the
\* input range
compute_power_stats_in_range(tbl) == DescribeOrNone(InRangeValues(NumericValues(tbl)))

\* compute_power_stats(df); NoStats stands for None
compute_power_stats(tbl) == DescribeOrNone(NumericValues(tbl))

\* the value power_status_label is given when there is no latest value
NoValue == [k |-> "none", n |-> 0, d |-> 1]

\* abs(value)
FAbs(v) == IF v.k = "nan" THEN v ELSE [v EXCEPT !.n = Abs(v.n)]

\* a variant of power_status_label that compares the value itself
power_status_label_signed(value) ==
    IF value.k = "none" THEN "No data"
    ELSE IF FLess(Frac(120, 1), value) THEN "High power alert"
    ELSE IF FLess(Frac(60, 1), value) THEN "Medium usage"
    ELSE "Normal"

\* power_status_label(value): the text of the label (each text has its
\* own emoji)
power_status_label(value) ==
    IF value.k = "none" THEN "No data"
    ELSE LET v == FAbs(value)
         IN  IF FLess(Frac(120, 1), v) THEN "High power alert"
             ELSE IF FLess(Frac(60, 1), v) THEN "Medium usage"
             ELSE "Normal"

\* the top metrics of the script: stats, latest_val and the status label,
\* computed from the table the run starts with
Cards(stats, latest_val) ==
    [stats |-> stats, latest_val |-> latest_val,
     status_text |-> power_status_label(latest_val)]

\* .iloc[-1]
Last(s) == s[Len(s)]

TopMetrics(tbl) ==
    Cards(compute_power_stats(tbl),
          IF compute_power_stats(tbl) # NoStats /\ ~IsEmpty(tbl)
          THEN Last(NumericValues(tbl)) ELSE NoValue)

\* what a script run computes for its metric cards and its statistics tab
Metrics(top, tab_stats) == [top |-> top, tab_stats |-> tab_stats]

NoMetrics ==
    Metrics([stats |-> NoStats, latest_val |-> NoValue, status_text |-> ""], NoStats)

\* ------------------------------------------------------------- script run
Ev(kind, text, idx, rows) == [kind |-> kind, text |-> text, idx |-> idx, rows |-> rows]

\* the script from the table buttons to its end, in source order; start is
\* the session the run begins with, which the metric cards are computed from
ScriptBody(s, button, edits, clicked, downloaded_any, filename_base, t) ==
    LET s1 == TableButtons(s, button)
        s2 == DataEditor(s1, edits)
        s3 == tab_history(s2, clicked)
    IN  [pre |-> s2, post |-> tab_export(s3, downloaded_any, filename_base, t),
         shown |-> history_messages(s2, clicked) \cup export_messages(s3, downloaded_any),
         start |-> s]

\* the state the session is left in when the run ends
Finish(run, ev, log, u) ==
    LET s == Collect(run.post)
        chart == tab_visual(run.pre.heap[run.pre.df], TRUE, POWER_MIN, POWER_MAX)
        cards == TopMetrics(run.start.heap[run.start.df])
        tab_stats == compute_power_stats(run.pre.heap[run.pre.df])
    IN  /\ df' = s.df
        /\ history' = s.history
        /\ heap' = s.heap
        /\ edit_mode' = s.edit_mode
        /\ power_input' = s.power_input
        /\ last_input_status' = s.last_input_status
        /\ df_plot' = IF ev.kind = "rerun" THEN chart ELSE <<>>
        /\ metrics' = IF ev.kind = "rerun" THEN Metrics(cards, tab_stats) ELSE NoMetrics
        /\ shown' = run.shown
        /\ event' = ev
        /\ inserted' = log
        /\ used' = u
        /\ UNCHANGED now

NoUse == [exports |-> 0, inserts |-> 0]

Init ==
    /\ df = 0
    /\ heap = (0 :> EmptyFrame)
    /\ history = <<>>
    /\ edit_mode = TRUE
    /\ power_input = <<>>
    /\ last_input_status = NoStatus
    /\ now = 0
    /\ df_plot = <<>>
    /\ metrics = NoMetrics
    /\ shown = {}
    /\ event = Ev("start", <<>>, -1, <<>>)
    /\ inserted = <<>>
    /\ used = NoUse

\* ----------------------------------------------------------------- actions
\* the operator types text into the input box and presses Enter
AddPower(text) ==
    LET s0 == handle_add_power([Session EXCEPT !.power_input = text], now)
        run == ScriptBody(s0, "none", NoEdit, -1, FALSE, DefaultBase, now)
    IN  /\ text # power_input
        /\ Len(run.post.heap[run.post.df]) <= MaxRows
        /\ Finish(run, Ev("add_power", text, -1, <<>>), inserted, used)

EditAll ==
    /\ ~edit_mode
    /\ Finish(ScriptBody(Session, "edit", NoEdit, -1, FALSE, DefaultBase, now),
              Ev("edit_all", <<>>, -1, <<>>), inserted, used)

LockTable ==
    /\ edit_mode
    /\ Finish(ScriptBody(Session, "lock", NoEdit, -1, FALSE, DefaultBase, now),
              Ev("lock", <<>>, -1, <<>>), inserted, used)

ClearAll ==
    Finish(ScriptBody(Session, "clear", NoEdit, -1, FALSE, DefaultBase, now),
           Ev("clear", <<>>, -1, <<>>), inserted, used)

\* the operator commits an edit in the data editor
GridEdit(tbl) ==
    /\ edit_mode
    /\ Finish(ScriptBody(Session, "none", Edit(tbl), -1, FALSE, DefaultBase, now),
              Ev("grid_edit", <<>>, -1, tbl), inserted, used)

\* the operator clicks "Restore this snapshot #i+1"
Restore(i) ==
    Finish(ScriptBody(Session, "none", NoEdit, i, FALSE, DefaultBase, now),
           Ev("restore", <<>>, i, <<>>), inserted, used)

\* the snapshot an add_to_history call is asked to keep
Asked(name, rows, t) == [name |-> name, rows |-> rows, timestamp |-> Stamp(t)]

\* the operator clicks one of the download buttons, at most limit times
ExportWithin(base, limit) ==
    LET run == ScriptBody(Session, "none", NoEdit, -1, TRUE, base, now)
    IN  /\ ~IsEmpty(Table)
        /\ used.exports < limit
        /\ Finish(run, Ev("export", base, -1, <<>>),
                  <<Asked(base \o ExportSuffix, run.pre.heap[run.pre.df], now)>>
                      \o inserted,
                  [used EXCEPT !.exports = @ + 1])

Export(base) == ExportWithin(base, MaxExports)

\* the operator touches a widget that changes no session state
Rerun ==
    Finish(ScriptBody(Session, "none", NoEdit, -1, FALSE, DefaultBase, now),
           Ev("rerun", <<>>, -1, <<>>), inserted, used)

\* add_to_history(df, name) called on its own with a table tbl
InsertCall(tbl, name) ==
    LET arg == Alloc(heap, tbl)
        s == add_to_history([Session EXCEPT !.heap = arg.heap], arg.ref, name, now)
    IN  /\ used.inserts < MaxInserts
        /\ Finish([pre |-> Session, post |-> s, shown |-> {}, start |-> Session],
                  Ev("insert", name, -1, tbl),
                  IF IsEmpty(tbl) THEN inserted
                  ELSE <<Asked(name, tbl, now)>> \o inserted,
                  [used EXCEPT !.inserts = @ + 1])

\* a second passes
Tick ==
    /\ now < MaxClock
    /\ now' = now + 1
    /\ UNCHANGED <<df, history, heap, edit_mode, power_input,
                   last_input_status, df_plot, metrics, shown, event, inserted, used>>

\* a whole session, with few inputs
Next ==
    \/ \E text \in SessionInputs : AddPower(text)
    \/ EditAll
    \/ LockTable
    \/ ClearAll
    \/ \E tbl \in SessionEdits : GridEdit(tbl)
    \/ \E i \in 0..Len(history) : Restore(i)
    \/ Export(DefaultBase)

Spec == Init /\ [][Next]_vars

\* appending and exporting, under any file name
NextExport ==
    \/ \E text \in SessionInputs : AddPower(text)
    \/ ClearAll
    \/ \E base \in FileBases : Export(base)

SpecExport == Init /\ [][NextExport]_vars

\* the table alone, with every input
NextTable ==
    \/ \E text \in PowerInputs : AddPower(text)
    \/ EditAll
    \/ LockTable
    \/ ClearAll
    \/ \E tbl \in EditedTables : GridEdit(tbl)

SpecTable == Init /\ [][NextTable]_vars

\* exporting and restoring, with the table changed in between
NextRoundTrip ==
    \/ AddPower(<<"1", "5", "0", " ">>)
    \/ ClearAll
    \/ GridEdit(RoundTripEdit)
    \/ ExportWithin(DefaultBase, MaxRoundTrip)
    \/ \E i \in 0..(Len(history) - 1) : Restore(i)

SpecRoundTrip == Init /\ [][NextRoundTrip]_vars

\* a session in which no grid edit is committed
NextNoEdit ==
    \/ \E text \in NoEditInputs : AddPower(text)
    \/ ClearAll
    \/ Export(DefaultBase)
    \/ \E i \in 0..(Len(history) - 1) : Restore(i)

SpecNoEdit == Init /\ [][NextNoEdit]_vars

\* the input box alone
NextAppend ==
    \/ \E text \in PowerInputs : AddPower(text)
    \/ Tick

SpecAppend == Init /\ [][NextAppend]_vars

\* add_to_history alone
NextInsert ==
    \/ \E tbl \in InsertTables : InsertCall(tbl, DefaultBase \o ExportSuffix)
    \/ Tick

SpecInsert == Init /\ [][NextInsert]_vars

\* the plot preparation alone, on every table
InitPlot ==
    /\ df = 0
    /\ heap \in {(0 :> tbl) : tbl \in PlotTables}
    /\ history = <<>>
    /\ edit_mode = TRUE
    /\ power_input = <<>>
    /\ last_input_status = NoStatus
    /\ now = 0
    /\ df_plot = <<>>
    /\ metrics = NoMetrics
    /\ shown = {}
    /\ event = Ev("start", <<>>, -1, <<>>)
    /\ inserted = <<>>
    /\ used = NoUse

SpecPlot == InitPlot /\ [][Rerun]_vars

\* a session whose table is tbl and in which nothing else has happened
InitWith(tbl) ==
    /\ df = 0
    /\ heap = (0 :> tbl)
    /\ history = <<>>
    /\ edit_mode = TRUE
    /\ power_input = <<>>
    /\ last_input_status = NoStatus
    /\ now = 0
    /\ df_plot = <<>>
    /\ metrics = NoMetrics
    /\ shown = {}
    /\ event = Ev("start", <<>>, -1, <<>>)
    /\ inserted = <<>>
    /\ used = NoUse

\* the statistics alone, on every table
InitStats == \E tbl \in StatTables : InitWith(tbl)

SpecStats == InitStats /\ [][Rerun]_vars

\* the status label alone, on every table
InitStatus == \E tbl \in StatusTables : InitWith(tbl)

SpecStatus == InitStatus /\ [][Rerun]_vars

\* ================================================================== claims
\* the snapshots of the history by content: name, rows, timestamp
View(h, hist) ==
    [i \in 1..Len(hist) |->
        [name |-> hist[i].name, rows |-> h[hist[i].df],
         timestamp |-> hist[i].timestamp]]

HistoryView == View(heap, history)

\* the three ways an append is said to fail
EmptyInput(text) == Strip(text) = <<>>
NotANumber(text) == ~EmptyInput(text) /\ ~ParseFloat(Strip(text)).ok
OutOfRange(text) ==
    /\ ParseFloat(Strip(text)).ok
    /\ LET v == ParseFloat(Strip(text)).v
       IN  \/ v.k = "num" /\ (v.n < -150 \/ v.n > 150)
           \/ v.k = "inf"

ExpectedError(text) ==
    IF EmptyInput(text) THEN MsgEmpty
    ELSE IF NotANumber(text) THEN MsgNotNumber
    ELSE MsgRange

\* the latest step was the input box's callback
AppendStep == event'.kind = "add_power" /\ now' = now

\* C1: an append whose text is blank, not a number, or a number outside
\* [-150,150] reports the matching error and leaves the table as it was
\* (same rows, same order).
C1_FailedAppendUnchanged ==
    [][(AppendStep /\ (EmptyInput(event'.text) \/ NotANumber(event'.text)
                        \/ OutOfRange(event'.text)))
        => /\ heap'[df'] = heap[df]
           /\ last_input_status' = ExpectedError(event'.text)
           /\ last_input_status'.level = "error"]_vars

C1_Witness ==
    /\ event.kind = "add_power"
    /\ OutOfRange(event.text)
    /\ last_input_status = MsgRange
    /\ Len(Table) = 2

\* the texts C2 lets through: a number v with -150 <= v <= 150
InRangeNumber(text) ==
    /\ ParseFloat(Strip(text)).ok
    /\ ParseFloat(Strip(text)).v.k = "num"
    /\ ParseFloat(Strip(text)).v.n >= -150
    /\ ParseFloat(Strip(text)).v.n <= 150

\* C2: with appends only, starting from the empty table, each call whose
\* trimmed text is a number within [-150,150] adds exactly one row holding
\* that number at the end, and every other call adds nothing; so the rows
\* are the accepted values in call order.
C2_AppendsInCallOrder ==
    /\ Table = <<>>
    /\ [][AppendStep =>
            IF InRangeNumber(event'.text)
            THEN /\ Len(heap'[df']) = Len(heap[df]) + 1
                 /\ SubSeq(heap'[df'], 1, Len(heap[df])) = heap[df]
                 /\ heap'[df'][Len(heap'[df'])].power
                        = ParseFloat(Strip(event'.text)).v
            ELSE heap'[df'] = heap[df]]_vars

\* C3: the history never holds more than 5 snapshots and is exactly the
\* 5 most recently inserted ones (all of them when fewer), newest first.
C3_HistoryIsLastFive ==
    /\ Len(history) <= 5
    /\ HistoryView = Take(inserted, 5)

C3_Witness ==
    /\ Len(inserted) = 6
    /\ Len(history) = 5
    /\ inserted[6].rows # inserted[5].rows
    /\ inserted[1].rows # inserted[2].rows

\* no two of the live table and the snapshots are the same DataFrame
NoAlias ==
    /\ \A i \in 1..Len(history) : history[i].df # df
    /\ \A i, j \in 1..Len(history) : i # j => history[i].df # history[j].df

\* C4: a snapshot keeps its rows through every operation for as long as
\* it stays in the history, and neither the live table nor a restored
\* table is the snapshot's own DataFrame, so changing them cannot reach it.
C4_SnapshotImmutable ==
    [][/\ \A i \in 1..Len(history) :
            LET j == i + (Len(inserted') - Len(inserted))
            IN  j <= Len(history') =>
                    /\ heap'[history'[j].df] = heap[history[i].df]
                    /\ history'[j].name = history[i].name
       /\ NoAlias']_vars

C4_Witness ==
    /\ Len(history) = 2
    /\ event.kind = "grid_edit"
    /\ Table # HistoryView[1].rows
    /\ Table # HistoryView[2].rows
    /\ HistoryView[1].rows # HistoryView[2].rows

\* C5: an export puts one snapshot at index 0 of the history, named
\* "<base filename> (export)", holding the rows of the table as it is at
\* the export; the snapshots already there move down by one.
C5_ExportInsertsSnapshot ==
    [][event'.kind = "export" =>
        /\ Len(history') = Min(Len(history) + 1, 5)
        /\ history'[1].name = event'.text \o ExportSuffix
        /\ heap'[history'[1].df] = heap[df]
        /\ heap'[history'[1].df] = heap'[df']
        /\ \A i \in 2..Len(history') :
               View(heap', history')[i] = HistoryView[i - 1]]_vars

C5_Witness ==
    /\ event.kind = "export"
    /\ event.text = <<"a">>
    /\ Len(history) = 2
    /\ HistoryView[1].name = <<"a", " ", "(", "e", "x", "p", "o", "r", "t", ")">>
    /\ HistoryView[1].rows = Table
    /\ HistoryView[2].rows # Table

\* C6: add_to_history with an empty table changes nothing in the history:
\* same length, same order, same contents.
C6_InsertEmptyNoOp ==
    [][(event'.kind = "insert" /\ event'.rows = <<>>
        /\ used'.inserts = used.inserts + 1)
        => /\ history' = history
           /\ View(heap', history') = HistoryView]_vars

C6_Witness ==
    /\ event.kind = "insert"
    /\ event.rows = <<>>
    /\ Len(history) = 2

C8_HistoryChangesOnlyOnExport ==
    /\ history = <<>>
    /\ [][/\ Len(history') >= Len(history)
          /\ View(heap', history') # HistoryView
                => event'.kind = "export" /\ used'.exports = used.exports + 1]_vars

C8_Witness ==
    /\ event.kind = "clear"
    /\ Len(history) = 2
    /\ Table = <<>>

\* two cells hold the same raw value (any two missing values are the same)
SameRaw(a, b) == a = b \/ (IsNA(a) /\ IsNA(b))

\* the latest step was a data-editor commit
EditStep == event'.kind = "grid_edit"

\* C9 as stated: after a grid edit the table holds the supplied rows in
\* the supplied order, each value in its raw edited form, also when it is
\* missing, unparsable or outside [-150,150].
C9_GridEditKeepsRaw ==
    [][EditStep =>
        /\ Len(heap'[df']) = Len(event'.rows)
        /\ \A i \in 1..Len(event'.rows) :
               /\ heap'[df'][i].dt = event'.rows[i].dt
               /\ SameRaw(heap'[df'][i].power, event'.rows[i].power)]_vars

\* the value the table holds for an edited Power cell
StoredPower(c) ==
    IF c.k = "num" THEN c
    ELSE IF c.k = "str" /\ ParseFloat(c.s).ok THEN ParseFloat(c.s).v
    ELSE NaN

\* C9 as the code has it: a grid edit is accepted without range
\* validation: the table holds one row per supplied row, in the supplied
\* order, with the Date Time as supplied; a numeric value stays as it is
\* also outside [-150,150], a missing value stays missing, numeric text
\* becomes its number and unparsable text becomes the missing value NaN.
\* The rows stay while the table is locked, unlocked or appended to.
C9_GridEditCoerces ==
    [][/\ EditStep =>
            /\ Len(heap'[df']) = Len(event'.rows)
            /\ \A i \in 1..Len(event'.rows) :
                   /\ heap'[df'][i].dt = event'.rows[i].dt
                   /\ heap'[df'][i].power = StoredPower(event'.rows[i].power)
       /\ event'.kind \in {"lock", "edit_all", "add_power"} =>
            SubSeq(heap'[df'], 1, Len(heap[df])) = heap[df]]_vars

C9_Witness ==
    /\ event.kind = "grid_edit"
    /\ Len(Table) = 2
    /\ event.rows[1].power = Str(<<"a", "b", "c">>)
    /\ Table[1].power = NaN
    /\ event.rows[2].power = Num(200)
    /\ Table[2].power = Num(200)
    /\ Table[1].dt # Table[2].dt

\* a Date Time cell that parses to an instant
DateParses(c) == c.k = "str" /\ IsStamp(c.s)

\* C10: with sorting on and the full display range, the charted frame
\* holds one row per table row whose timestamp and value both parse, and
\* its rows are in ascending order of their instants.  (Rows whose value
\* lies outside the display range [-150,150] are left out of the count.)
C10_PlotKeepsAllParsable ==
    event.kind = "rerun" =>
        /\ Len(df_plot) = Cardinality({i \in 1..Len(Table) :
                              /\ DateParses(Table[i].dt)
                              /\ Table[i].power.k = "num"
                              /\ Table[i].power.n >= -150
                              /\ Table[i].power.n <= 150})
        /\ \A i \in 1..Len(df_plot) : df_plot[i].dt.k = "ts"
        /\ \A i \in 1..(Len(df_plot) - 1) : df_plot[i].dt.n <= df_plot[i + 1].dt.n

\* a Power cell that holds a number or coerces to one (NaN is not one)
IsNumeric(c) ==
    \/ c.k \in {"num", "inf"}
    \/ c.k = "str" /\ ParseFloat(c.s).ok /\ ParseFloat(c.s).v.k \in {"num", "inf"}

\* the numeric values of a table, in row order
NumericCells(tbl) ==
    LET rows == SelectSeq(tbl, LAMBDA r : IsNumeric(r.power))
    IN  [i \in 1..Len(rows) |->
            IF rows[i].power.k = "str" THEN ParseFloat(rows[i].power.s).v
            ELSE rows[i].power]

RECURSIVE IntSum(_)
IntSum(cells) ==
    IF cells = <<>> THEN 0 ELSE cells[1].n + IntSum(Tail(cells))

\* st is what the statistics are said to be for the table tbl
StatsAsStated(st, tbl) ==
    LET cells == NumericCells(tbl)
        vals == {FloatOf(cells[i]) : i \in 1..Len(cells)}
    IN  /\ (st = NoStats) <=> (cells = <<>>)
        /\ cells # <<>> =>
            /\ st.count = Len(cells)
            /\ st.min \in vals /\ \A v \in vals : ~FLess(v, st.min)
            /\ st.max \in vals /\ \A v \in vals : ~FLess(st.max, v)
            /\ (\A i \in 1..Len(cells) : cells[i].k = "num")
                    => st.sum = Frac(IntSum(cells), 1)
            /\ (\A v \in vals : v.k = "inf" => v = FInf(1)) /\ FInf(1) \in vals
                    => st.sum = FInf(1)
            /\ (\A v \in vals : v.k = "inf" => v = FInf(-1)) /\ FInf(-1) \in vals
                    => st.sum = FInf(-1)
            /\ Len(cells) = 1 =>
                /\ st.mean = FloatOf(cells[1])
                /\ st.median = FloatOf(cells[1])
                /\ st.min = FloatOf(cells[1])
                /\ st.max = FloatOf(cells[1])
                /\ st.sum = FloatOf(cells[1])
                /\ st.std = Frac(0, 1)

\* C11: the statistics use exactly the values of the table that are
\* numbers or coerce to one, those outside [-150,150] included: there are
\* no statistics exactly when no row has such a value; otherwise count is
\* the number of those rows and sum, min and max are taken over them (the
\* sum where it is defined: not over infinities of both signs); with one
\* such value, mean = median = min = max = sum = that value and std = 0.
C11_StatsOverNumericValues ==
    event.kind = "rerun" =>
        /\ StatsAsStated(metrics.top.stats, Table)
        /\ StatsAsStated(metrics.tab_stats, Table)

C11_Witness ==
    /\ event.kind = "rerun"
    /\ Len(Table) = 3
    /\ Table[1].power = Num(10)
    /\ Table[2].power = NaN
    /\ Table[3].power = Num(-200)
    /\ metrics.top.stats.count = 2
    /\ metrics.top.stats.sum = Frac(-190, 1)
    /\ metrics.top.stats.min = Frac(-200, 1)

\* the label texts of the four severities
Unknown == "No data"
High == "High power alert"
Medium == "Medium usage"
Normal == "Normal"

\* the severity stated for a numeric cell: by its absolute magnitude
SeverityAsStated(c) ==
    IF c.k = "inf" THEN High
    ELSE IF Abs(c.n) > 120 THEN High
    ELSE IF Abs(c.n) > 60 THEN Medium
    ELSE Normal

\* C12: the label of the latest value (the last numeric value of the
\* table) is Unknown when the table has no numeric value; otherwise it is
\* High if |v| > 120, Medium if 60 < |v| <= 120 and Normal if |v| <= 60, so
\* 60 is Normal and 120 is Medium, and v and -v get the same label, inside
\* and outside [-150,150].
C12_SeverityByMagnitude ==
    event.kind = "rerun" =>
        LET cells == NumericCells(Table)
            label == metrics.top.status_text
        IN  /\ cells = <<>> => label = Unknown /\ metrics.top.latest_val = NoValue
            /\ cells # <<>> =>
                LET c == cells[Len(cells)]
                IN  /\ metrics.top.latest_val = FloatOf(c)
                    /\ label = SeverityAsStated(c)
                    /\ (c.k = "num" /\ Abs(c.n) = 60) => label = Normal
                    /\ (c.k = "num" /\ Abs(c.n) = 120) => label = Medium
                    /\ power_status_label(FNeg(FloatOf(c))) = label

C12_Witness ==
    /\ event.kind = "rerun"
    /\ Len(Table) = 2
    /\ Table[1].power = Num(-200)
    /\ Table[2].power = NaN
    /\ metrics.top.latest_val = Frac(-200, 1)
    /\ metrics.top.status_text = High

\* C13: restoring the snapshot of an export puts back the table as it was
\* at that export, same rows in the same order, whatever appends, grid
\* edits, clears and further exports (fewer than 5) came in between, and
\* leaves the history as it was.  The export made idx exports before the
\* latest one is the snapshot at index idx, and `inserted` holds the table
\* each export saw.
C13_ExportRestoreRoundTrip ==
    [][/\ (event'.kind = "export" /\ used'.exports = used.exports + 1) =>
            /\ heap[df] # <<>>
            /\ inserted'[1].rows = heap[df]
       /\ (event'.kind = "restore" /\ event'.idx < Len(history)
           /\ event'.idx < 5) =>
            /\ heap'[df'] = inserted[event'.idx + 1].rows
            /\ View(heap', history') = HistoryView
            /\ inserted' = inserted]_vars

C13_Witness ==
    /\ event.kind = "restore"
    /\ event.idx = 3
    /\ Len(history) = 4
    /\ Table = inserted[4].rows
    /\ Len(Table) = 2
    /\ Table[1] # Table[2]
    /\ \A i \in 1..3 : inserted[i].rows # Table

\* a Power cell that holds a number within [-150,150]
InRangeCell(c) == c.k = "num" /\ c.n >= -150 /\ c.n <= 150

\* C14: in a session without grid edits (appends, clear-all, exports and
\* restores only), every value of the live table and of every snapshot is
\* a number within [-150,150], and every snapshot has at least one row.
C14_NoEditKeepsRange ==
    /\ \A i \in 1..Len(Table) : InRangeCell(Table[i].power)
    /\ \A j \in 1..Len(history) :
        /\ Len(HistoryView[j].rows) >= 1
        /\ \A i \in 1..Len(HistoryView[j].rows) :
               InRangeCell(HistoryView[j].rows[i].power)

====
